---- MODULE Spec2Model ----
(***************************************************************************)
(* TheSarvaNews backend: the Express server of src/server.js and its       *)
(* retrying variant src/unnamed/part_000.  The store (Prisma User and      *)
(* Bookmark tables), the JWT auth gate, the identity, bookmark and news    *)
(* handlers.  A handler is a sequence of steps: the synchronous prefix     *)
(* that runs when the request arrives, and one step per awaited call.      *)
(* Node runs each step without interruption; other requests' steps may     *)
(* run between two steps of one request.  Store calls fail only on a       *)
(* unique index; hist and the fields at, doneAt, alone, had and count of a  *)
(* request record what happened and are read by no handler.                 *)
(***************************************************************************)
EXTENDS Integers, Sequences, FiniteSets, TLC

VARIABLES users, bookmarks, nextUid, nextBid, now, ticks, issued, reqs, hist,
          variant, calls

vars == <<users, bookmarks, nextUid, nextBid, now, ticks, issued, reqs, hist,
          variant, calls>>

(* ------------------------------ bounds -------------------------------- *)
\* requests started in one behaviour
MaxReqs == 3
\* requests sent to the auth gate in one behaviour
MaxGateReqs == 2
\* /api/news requests in one behaviour
MaxNewsReqs == 1
\* clock advances in one behaviour
MaxTicks == 2

\* the requests in flight at once
Slots == {1, 2}

(* ------------------------- program constants -------------------------- *)
\* jwt.sign(..., { expiresIn: '1h' }), in seconds
expiresIn == 3600
\* axiosRetry(axios, { retries: 3, ... })
retries == 3

(* ------------------------------- inputs ------------------------------- *)
Emails == {"a@x", "b@x"}
Passwords == {"pw1", "pw2"}
Urls == {"u1", "u2"}
\* the clock's steps, in milliseconds: within a second, and what is left of
\* an hour
TickSteps == {400, 3599600}

(* ---------------------------- the store ------------------------------- *)
\* bcrypt.hash(password, 10) and bcrypt.compare(password, hash)
bcryptHash(password) == <<"bcrypt", password>>

bcryptCompare(password, hashed) == hashed = bcryptHash(password)

\* prisma.user.findUnique({ where: { email } }): the set holds the row, if any
FindUserByEmail(us, email) == {u \in us : u.email = email}

\* prisma.user.findUnique({ where: { id } })
FindUserById(us, id) == {u \in us : u.id = id}

\* the rows prisma.bookmark.findFirst / deleteMany ({ where: { userId, url } }) match
Matching(bs, userId, url) == {b \in bs : b.userId = userId /\ b.url = url}

\* the rows prisma.bookmark.findMany({ where: { userId } }) matches
OwnedBy(bs, userId) == {b \in bs : b.userId = userId}

\* the unique index on User.email: prisma.user.create throws on a duplicate
UserCreateRejects(us, email) == FindUserByEmail(us, email) # {}

\* the Bookmark table has no unique index on (userId, url): create never throws
BookmarkCreateRejects(bs, userId, url) == FALSE

\* orderBy: { createdAt: 'desc' }: the rows as a list, newest first
OrderDesc(rows) ==
  CHOOSE sq \in [1..Cardinality(rows) -> rows] :
    /\ \A i, j \in 1..Cardinality(rows) : i # j => sq[i] # sq[j]
    /\ \A i, j \in 1..Cardinality(rows) : i < j => sq[i].createdAt >= sq[j].createdAt

(* ------------------------------ tokens -------------------------------- *)
NoClaim == [id |-> 0, name |-> "", email |-> ""]

NoTok == [claim |-> NoClaim, iat |-> 0, exp |-> 0, sig |-> "absent"]

\* a string that is no JWT
Garbage == [claim |-> NoClaim, iat |-> 0, exp |-> 0, sig |-> "malformed"]

\* a token whose signature was not made with JWT_SECRET
Forged(t) == [t EXCEPT !.sig = "forged"]

\* Math.floor(Date.now() / 1000), the clock jsonwebtoken reads
ClockTimestamp(ms) == ms \div 1000

\* jwt.sign({ id, name, email }, JWT_SECRET, { expiresIn: '1h' })
jwtSign(user, ms) ==
  [claim |-> [id |-> user.id, name |-> user.name, email |-> user.email],
   iat |-> ClockTimestamp(ms), exp |-> ClockTimestamp(ms) + expiresIn,
   sig |-> "valid"]

\* a verify that takes the token until its exp second has passed
jwtVerifyThroughExp(t, ms) == t.sig = "valid" /\ ClockTimestamp(ms) <= t.exp

\* jwt.verify(token, JWT_SECRET, cb): err unless the token is well formed,
\* signed with the secret and not expired (clockTimestamp >= exp is expired)
jwtVerify(t, ms) == t.sig = "valid" /\ ClockTimestamp(ms) < t.exp

(* ----------------------------- auth gate ------------------------------ *)
NoHeader == [present |-> FALSE, scheme |-> "", tok |-> NoTok]

\* the header "<scheme> <token>"; tok = NoTok is a header of one word
Header(scheme, t) == [present |-> TRUE, scheme |-> scheme, tok |-> t]

\* authHeader && authHeader.split(' ')[1]
TokenOf(h) == IF h.present THEN h.tok ELSE NoTok

\* authenticateToken: the status it answers with, 0 when it calls next()
authenticateToken(h, ms) ==
  IF TokenOf(h) = NoTok THEN 401
  ELSE IF ~jwtVerify(TokenOf(h), ms) THEN 403
  ELSE 0

\* req.user, as authenticateToken sets it
GateUser(h, ms) == IF authenticateToken(h, ms) = 0 THEN TokenOf(h).claim ELSE NoClaim

(* ----------------------------- requests ------------------------------- *)
Idle ==
  [kind |-> "idle", pc |-> "idle", hdr |-> NoHeader, user |-> NoClaim,
   name |-> "", email |-> "", password |-> "", title |-> "", url |-> "",
   bodyUid |-> 0, at |-> 0, doneAt |-> 0, alone |-> FALSE, had |-> FALSE,
   status |-> 0, msg |-> "", rows |-> <<>>, token |-> NoTok, count |-> 0,
   hashedPassword |-> <<>>, rid |-> 0, mode |-> "", keyword |-> "", endpoint |-> "", sends |-> 0,
   last |-> ""]

InFlight == {s \in Slots : reqs[s].kind # "idle"}

Started == Len(hist) + Cardinality(InFlight)

\* a new request takes the first free slot
CanStart(s) ==
  /\ reqs[s].kind = "idle"
  /\ \A t \in Slots : t < s => reqs[t].kind # "idle"
  /\ Started < MaxReqs

\* a request arrives in slot s: it is alone if nothing else is in flight, and
\* whatever is in flight is no longer alone
Arrive(s, r) ==
  [t \in Slots |->
     IF t = s THEN [r EXCEPT !.alone = (InFlight = {}), !.at = now]
     ELSE IF reqs[t].kind # "idle" THEN [reqs[t] EXCEPT !.alone = FALSE]
     ELSE reqs[t]]

\* the response is sent: the request leaves its slot for the history
Respond(s, r, status, msg) ==
  /\ hist' = Append(hist, [r EXCEPT !.pc = "done", !.status = status, !.msg = msg,
                                    !.doneAt = now])
  /\ reqs' = [reqs EXCEPT ![s] = Idle]

\* a response sent in the step the request arrived in
RespondAtOnce(s, r, status, msg) ==
  /\ hist' = Append(hist, [r EXCEPT !.pc = "done", !.status = status, !.msg = msg,
                                    !.alone = (InFlight = {}), !.at = now,
                                    !.doneAt = now])
  /\ reqs' = [t \in Slots |->
                IF reqs[t].kind # "idle" THEN [reqs[t] EXCEPT !.alone = FALSE]
                ELSE reqs[t]]

\* authenticateToken answers for the handler: res.status(401) or res.status(403)
GateAnswers(s, r) ==
  IF authenticateToken(r.hdr, now) = 401
    THEN RespondAtOnce(s, r, 401, "No token provided")
    ELSE RespondAtOnce(s, r, 403, "Invalid token")

\* the request as the handler gets it from next(): req.user is set
Passed(r) == [r EXCEPT !.user = GateUser(r.hdr, now)]

(* -------------------------- bookmark service -------------------------- *)
\* a missing existence check
AddExistsNever(r) == FALSE

\* exists: findFirst({ where: { userId: req.user.id, url } }) found a row
AddExists(r) == Matching(bookmarks, r.user.id, r.url) # {}

\* POST /api/bookmarks up to the first await
StartAdd(s, h, body) ==
  /\ CanStart(s)
  /\ LET r == [Idle EXCEPT !.kind = "add", !.hdr = h, !.title = body.title,
                           !.url = body.url, !.bodyUid = body.userId,
                           !.had = \E b \in bookmarks :
                                     b.userId = TokenOf(h).claim.id /\ b.url = body.url]
     IN IF authenticateToken(h, now) # 0 THEN GateAnswers(s, r)
        ELSE IF r.title = "" \/ r.url = ""
          THEN RespondAtOnce(s, Passed(r), 400, "Title and URL are required")
          ELSE /\ reqs' = Arrive(s, [Passed(r) EXCEPT !.pc = "findFirst"])
               /\ UNCHANGED hist
  /\ UNCHANGED <<users, bookmarks, nextUid, nextBid, now, ticks, issued, variant, calls>>

\* prisma.bookmark.findFirst resolves: 409 if a row matches
AddFindFirst(s) ==
  /\ reqs[s].kind = "add" /\ reqs[s].pc = "findFirst"
  /\ IF AddExists(reqs[s])
       THEN Respond(s, [reqs[s] EXCEPT
                          !.count = Cardinality(Matching(bookmarks, reqs[s].user.id, reqs[s].url))],
                    409, "Bookmark already exists")
       ELSE /\ reqs' = [reqs EXCEPT ![s].pc = "create"]
            /\ UNCHANGED hist
  /\ UNCHANGED <<users, bookmarks, nextUid, nextBid, now, ticks, issued, variant, calls>>

\* data: { userId: req.user.id, title, url, ... }
NewBookmark(r) ==
  [id |-> nextBid, userId |-> r.user.id, url |-> r.url, title |-> r.title,
   createdAt |-> now]

\* prisma.bookmark.create resolves: the row is inserted, 201; a throw would
\* go to the catch, 500
AddCreate(s) ==
  /\ reqs[s].kind = "add" /\ reqs[s].pc = "create"
  /\ IF BookmarkCreateRejects(bookmarks, reqs[s].user.id, reqs[s].url)
       THEN /\ Respond(s, reqs[s], 500, "Server error")
            /\ UNCHANGED <<bookmarks, nextBid>>
       ELSE /\ bookmarks' = bookmarks \cup {NewBookmark(reqs[s])}
            /\ nextBid' = nextBid + 1
            /\ Respond(s, [reqs[s] EXCEPT
                             !.count = Cardinality(Matching(bookmarks', reqs[s].user.id, reqs[s].url))],
                       201, "Bookmark added")
  /\ UNCHANGED <<users, nextUid, now, ticks, issued, variant, calls>>

\* GET /api/bookmarks up to the await
StartList(s, h) ==
  /\ CanStart(s)
  /\ LET r == [Idle EXCEPT !.kind = "list", !.hdr = h]
     IN IF authenticateToken(h, now) # 0 THEN GateAnswers(s, r)
        ELSE /\ reqs' = Arrive(s, [Passed(r) EXCEPT !.pc = "findMany"])
             /\ UNCHANGED hist
  /\ UNCHANGED <<users, bookmarks, nextUid, nextBid, now, ticks, issued, variant, calls>>

\* where: { userId: req.user.id }, orderBy: { createdAt: 'desc' }
ListRows(r) == OrderDesc(OwnedBy(bookmarks, r.user.id))

\* prisma.bookmark.findMany resolves: the rows are the body
ListFindMany(s) ==
  /\ reqs[s].kind = "list" /\ reqs[s].pc = "findMany"
  /\ Respond(s, [reqs[s] EXCEPT !.rows = ListRows(reqs[s])], 200, "")
  /\ UNCHANGED <<users, bookmarks, nextUid, nextBid, now, ticks, issued, variant, calls>>

\* DELETE /api/bookmarks up to the await
StartDelete(s, h, body) ==
  /\ CanStart(s)
  /\ LET r == [Idle EXCEPT !.kind = "delete", !.hdr = h, !.url = body.url,
                           !.bodyUid = body.userId]
     IN IF authenticateToken(h, now) # 0 THEN GateAnswers(s, r)
        ELSE IF r.url = ""
          THEN RespondAtOnce(s, Passed(r), 400, "Bookmark URL required")
          ELSE /\ reqs' = Arrive(s, [Passed(r) EXCEPT !.pc = "deleteMany"])
               /\ UNCHANGED hist
  /\ UNCHANGED <<users, bookmarks, nextUid, nextBid, now, ticks, issued, variant, calls>>

\* a delete scoped by the body's userId when it names one
DeleteTargetsByBody(r) ==
  Matching(bookmarks, IF r.bodyUid # 0 THEN r.bodyUid ELSE r.user.id, r.url)

\* a delete that matches the url alone
DeleteTargetsAnyUser(r) == {b \in bookmarks : b.url = r.url}

\* the rows deleteMany({ where: { userId: req.user.id, url } }) removes
DeleteTargets(r) == Matching(bookmarks, r.user.id, r.url)

\* prisma.bookmark.deleteMany resolves: 404 if deleted.count === 0
DeleteMany(s) ==
  /\ reqs[s].kind = "delete" /\ reqs[s].pc = "deleteMany"
  /\ bookmarks' = bookmarks \ DeleteTargets(reqs[s])
  /\ LET r == [reqs[s] EXCEPT !.count = Cardinality(DeleteTargets(reqs[s]))]
     IN IF r.count = 0
          THEN Respond(s, r, 404, "Bookmark not found")
          ELSE Respond(s, r, 200, "Bookmark deleted")
  /\ UNCHANGED <<users, nextUid, nextBid, now, ticks, issued, variant, calls>>

\* GET /api/profile up to the await
StartProfile(s, h) ==
  /\ CanStart(s)
  /\ LET r == [Idle EXCEPT !.kind = "profile", !.hdr = h]
     IN IF authenticateToken(h, now) # 0 THEN GateAnswers(s, r)
        ELSE /\ reqs' = Arrive(s, [Passed(r) EXCEPT !.pc = "findUnique"])
             /\ UNCHANGED hist
  /\ UNCHANGED <<users, bookmarks, nextUid, nextBid, now, ticks, issued, variant, calls>>

\* prisma.user.findUnique({ where: { id: req.user.id } }) resolves: the body is
\* the row's id, name and email
ProfileFind(s) ==
  /\ reqs[s].kind = "profile" /\ reqs[s].pc = "findUnique"
  /\ IF FindUserById(users, reqs[s].user.id) = {}
       THEN Respond(s, reqs[s], 404, "User not found")
       ELSE LET u == CHOOSE u \in FindUserById(users, reqs[s].user.id) : TRUE
            IN Respond(s, [reqs[s] EXCEPT
                             !.rows = <<[id |-> u.id, name |-> u.name, email |-> u.email]>>],
                       200, "")
  /\ UNCHANGED <<users, bookmarks, nextUid, nextBid, now, ticks, issued, variant, calls>>

\* a missing already-registered check
RegisterExistsNever(r) == FALSE

\* exists: findUnique({ where: { email } }) found a row
RegisterExists(r) == FindUserByEmail(users, r.email) # {}

\* POST /api/register up to the first await
StartRegister(s, body) ==
  /\ CanStart(s)
  /\ LET r == [Idle EXCEPT !.kind = "register", !.name = body.name,
                           !.email = body.email, !.password = body.password,
                           !.had = FindUserByEmail(users, body.email) # {}]
     IN IF r.name = "" \/ r.email = "" \/ r.password = ""
          THEN RespondAtOnce(s, r, 400, "Name, email, and password are required")
          ELSE /\ reqs' = Arrive(s, [r EXCEPT !.pc = "findUnique"])
               /\ UNCHANGED hist
  /\ UNCHANGED <<users, bookmarks, nextUid, nextBid, now, ticks, issued, variant, calls>>

\* prisma.user.findUnique resolves: 400 if the email is registered
RegisterFind(s) ==
  /\ reqs[s].kind = "register" /\ reqs[s].pc = "findUnique"
  /\ IF RegisterExists(reqs[s])
       THEN Respond(s, [reqs[s] EXCEPT
                          !.count = Cardinality(FindUserByEmail(users, reqs[s].email))],
                    400, "Email already registered")
       ELSE /\ reqs' = [reqs EXCEPT ![s].pc = "hash"]
            /\ UNCHANGED hist
  /\ UNCHANGED <<users, bookmarks, nextUid, nextBid, now, ticks, issued, variant, calls>>

\* bcrypt.hash resolves
RegisterHash(s) ==
  /\ reqs[s].kind = "register" /\ reqs[s].pc = "hash"
  /\ reqs' = [reqs EXCEPT ![s].pc = "create",
                           ![s].hashedPassword = bcryptHash(reqs[s].password)]
  /\ UNCHANGED <<users, bookmarks, nextUid, nextBid, now, ticks, issued, hist, variant, calls>>

\* data: { name, email, password: hashedPassword }
NewUser(r) ==
  [id |-> nextUid, name |-> r.name, email |-> r.email, password |-> r.hashedPassword]

\* prisma.user.create resolves, 201, or throws into the catch, 500
RegisterCreate(s) ==
  /\ reqs[s].kind = "register" /\ reqs[s].pc = "create"
  /\ IF UserCreateRejects(users, reqs[s].email)
       THEN /\ Respond(s, [reqs[s] EXCEPT
                             !.count = Cardinality(FindUserByEmail(users, reqs[s].email))],
                       500, "Server error")
            /\ UNCHANGED <<users, nextUid>>
       ELSE /\ users' = users \cup {NewUser(reqs[s])}
            /\ nextUid' = nextUid + 1
            /\ Respond(s, [reqs[s] EXCEPT
                             !.user = [id |-> nextUid, name |-> reqs[s].name,
                                       email |-> reqs[s].email],
                             !.count = Cardinality(FindUserByEmail(users', reqs[s].email))],
                       201, "User registered")
  /\ UNCHANGED <<bookmarks, nextBid, now, ticks, issued, variant, calls>>

\* POST /api/login up to the first await
StartLogin(s, body) ==
  /\ CanStart(s)
  /\ LET r == [Idle EXCEPT !.kind = "login", !.email = body.email,
                           !.password = body.password,
                           !.had = FindUserByEmail(users, body.email) # {}]
     IN IF r.email = "" \/ r.password = ""
          THEN RespondAtOnce(s, r, 400, "Email and password are required")
          ELSE /\ reqs' = Arrive(s, [r EXCEPT !.pc = "findUnique"])
               /\ UNCHANGED hist
  /\ UNCHANGED <<users, bookmarks, nextUid, nextBid, now, ticks, issued, variant, calls>>

\* an answer that tells the caller the email is not registered
LoginNoUserTelling == "User not found"

\* the message of if (!user) return res.status(400).json(...)
LoginNoUser == "Invalid email or password"

\* the message of if (!validPass) return res.status(400).json(...)
LoginBadPassword == "Invalid email or password"

\* prisma.user.findUnique resolves: 400 if there is no such user; user holds
\* the row
LoginFind(s) ==
  /\ reqs[s].kind = "login" /\ reqs[s].pc = "findUnique"
  /\ IF FindUserByEmail(users, reqs[s].email) = {}
       THEN Respond(s, reqs[s], 400, LoginNoUser)
       ELSE /\ LET u == CHOOSE u \in FindUserByEmail(users, reqs[s].email) : TRUE
               IN reqs' = [reqs EXCEPT
                             ![s].pc = "compare",
                             ![s].user = [id |-> u.id, name |-> u.name, email |-> u.email],
                             ![s].hashedPassword = u.password]
            /\ UNCHANGED hist
  /\ UNCHANGED <<users, bookmarks, nextUid, nextBid, now, ticks, issued, variant, calls>>

\* bcrypt.compare resolves: 400 if the password is wrong, else the token is
\* signed and sent
LoginCompare(s) ==
  /\ reqs[s].kind = "login" /\ reqs[s].pc = "compare"
  /\ IF ~bcryptCompare(reqs[s].password, reqs[s].hashedPassword)
       THEN /\ Respond(s, reqs[s], 400, LoginBadPassword)
            /\ UNCHANGED issued
       ELSE /\ Respond(s, [reqs[s] EXCEPT !.token = jwtSign(reqs[s].user, now)], 200, "")
            /\ issued' = issued \cup {jwtSign(reqs[s].user, now)}
  /\ UNCHANGED <<users, bookmarks, nextUid, nextBid, now, ticks, variant, calls>>

(* ---------------------------- news adapter ---------------------------- *)
\* a query parameter: given with a value, or absent
Given(v) == [given |-> TRUE, value |-> v]

Absent == [given |-> FALSE, value |-> ""]

\* const { mode = 'top-headlines', keyword = '' } = req.query
OrDefault(param, default) == IF param.given THEN param.value ELSE default

TopHeadlines == "https://gnews.io/api/v4/top-headlines"

Search == "https://gnews.io/api/v4/search"

\* an adapter that always calls the search endpoint
EndpointAlwaysSearch(mode) == Search

\* new URL(mode === 'top-headlines' ? top-headlines : search)
Endpoint(mode) == IF mode = "top-headlines" THEN TopHeadlines ELSE Search

\* how the upstream call can end: a response, or an error with its code
Outcomes == {"200", "404", "503", "ECONNRESET", "ETIMEDOUT", "ECONNABORTED"}

\* a retry after any failure
retryOnAnyError(outcome) == outcome # "200"

\* retryCondition: isNetworkOrIdempotentRequestError(err) || err.code === 'ETIMEDOUT':
\* an error with no response, unless axios aborted the request at its own
\* timeout (ECONNABORTED), or a 5xx answer to this GET
retryCondition(outcome) == outcome \in {"503", "ECONNRESET", "ETIMEDOUT"}

\* a retry budget that counts the first attempt
MaySendAgainCountingFirst(sends) == sends < retries

\* retries: 3: the request is sent again while fewer than 3 retries were made
MaySendAgain(sends) == sends - 1 < retries

\* the outbound GET
Send(r) == Append(calls, [rid |-> r.rid, endpoint |-> r.endpoint])

\* GET /api/news up to the await of the outbound call
StartNews(s, mode, keyword) ==
  /\ CanStart(s)
  /\ LET r == [Idle EXCEPT !.kind = "news", !.rid = Started + 1,
                           !.mode = OrDefault(mode, "top-headlines"),
                           !.keyword = OrDefault(keyword, ""),
                           !.endpoint = Endpoint(OrDefault(mode, "top-headlines"))]
     IN IF r.mode # "top-headlines" /\ r.keyword = ""
          THEN /\ RespondAtOnce(s, r, 400, "Keyword is required for search mode.")
               /\ UNCHANGED calls
          ELSE /\ reqs' = Arrive(s, [r EXCEPT !.pc = "get", !.sends = 1])
               /\ calls' = Send(r)
               /\ UNCHANGED hist
  /\ UNCHANGED <<users, bookmarks, nextUid, nextBid, now, ticks, issued, variant>>

\* server.js: await fetch(url) ends; a response that is not ok is forwarded
\* with its status, an error is caught
NewsFetched(s, outcome) ==
  /\ variant = "fetch"
  /\ reqs[s].kind = "news" /\ reqs[s].pc = "get"
  /\ LET r == [reqs[s] EXCEPT !.last = outcome]
     IN CASE outcome = "200" -> Respond(s, r, 200, "payload")
          [] outcome = "404" -> Respond(s, r, 404, "GNews API request failed")
          [] outcome = "503" -> Respond(s, r, 503, "GNews API request failed")
          [] OTHER -> Respond(s, r, 500, "Internal Server Error")
  /\ UNCHANGED <<users, bookmarks, nextUid, nextBid, now, ticks, issued, variant, calls>>

\* part_000: one attempt of axios.get ends; axios-retry waits to send again,
\* or the promise settles: the payload, or the catch's 500
NewsAttempted(s, outcome) ==
  /\ variant = "axios"
  /\ reqs[s].kind = "news" /\ reqs[s].pc = "get"
  /\ LET r == [reqs[s] EXCEPT !.last = outcome]
     IN IF outcome = "200"
          THEN Respond(s, r, 200, "payload")
        ELSE IF retryCondition(outcome) /\ MaySendAgain(r.sends)
          THEN /\ reqs' = [reqs EXCEPT ![s] = [r EXCEPT !.pc = "delay"]]
               /\ UNCHANGED hist
        ELSE Respond(s, r, 500, "Failed to fetch news from GNews.")
  /\ UNCHANGED <<users, bookmarks, nextUid, nextBid, now, ticks, issued, variant, calls>>

\* retryDelay: exponentialDelay has passed: the request is sent again
NewsRetry(s) ==
  /\ reqs[s].kind = "news" /\ reqs[s].pc = "delay"
  /\ reqs' = [reqs EXCEPT ![s].pc = "get", ![s].sends = reqs[s].sends + 1]
  /\ calls' = Send(reqs[s])
  /\ UNCHANGED <<users, bookmarks, nextUid, nextBid, now, ticks, issued, hist, variant>>

\* time passes
Tick(d) ==
  /\ ticks < MaxTicks
  /\ now' = now + d
  /\ ticks' = ticks + 1
  /\ UNCHANGED <<users, bookmarks, nextUid, nextBid, issued, reqs, hist, variant, calls>>

(* ------------------- the bookmark service, concurrent ----------------- *)
Ann == [id |-> 1, name |-> "ann", email |-> "a@x", password |-> bcryptHash("pw1")]

Bob == [id |-> 2, name |-> "bob", email |-> "b@x", password |-> bcryptHash("pw2")]

\* two users are registered and logged in
InitBookmarks ==
  /\ users = {Ann, Bob}
  /\ nextUid = 3
  /\ bookmarks = {}
  /\ nextBid = 1
  /\ now = 0
  /\ ticks = 0
  /\ issued = {jwtSign(Ann, 0), jwtSign(Bob, 0)}
  /\ reqs = [s \in Slots |-> Idle]
  /\ hist = <<>>
  /\ variant = "fetch"
  /\ calls = <<>>

\* the headers of logged-in clients
BearerHeaders == {Header("Bearer", t) : t \in issued}

\* request bodies: the fields the handlers read, and a userId they do not read
\* (0: the body names none)
Body(title, url, userId) == [title |-> title, url |-> url, userId |-> userId]

AddBodies == {Body("t", u, 0) : u \in Urls} \cup {Body("t", "u1", 2)}

DeleteBodies == {Body("", u, 0) : u \in Urls} \cup {Body("", "u1", 2)}

\* bodies with and without the required fields
GateAddBodies == {Body("t", "u1", 0), Body("", "u1", 0)}

GateDeleteBodies == {Body("", "u1", 0), Body("", "", 0)}

NextBookmarks ==
  \/ \E s \in Slots, h \in BearerHeaders, b \in AddBodies : StartAdd(s, h, b)
  \/ \E s \in Slots : AddFindFirst(s)
  \/ \E s \in Slots : AddCreate(s)
  \/ \E s \in Slots, h \in BearerHeaders : StartList(s, h)
  \/ \E s \in Slots : ListFindMany(s)
  \/ \E s \in Slots, h \in BearerHeaders, b \in DeleteBodies : StartDelete(s, h, b)
  \/ \E s \in Slots : DeleteMany(s)

Spec == InitBookmarks /\ [][NextBookmarks]_vars

(* --------------------------- the auth gate ---------------------------- *)
\* one user is logged in
InitGate ==
  /\ users = {Ann, Bob}
  /\ nextUid = 3
  /\ bookmarks = {}
  /\ nextBid = 1
  /\ now = 0
  /\ ticks = 0
  /\ issued = {jwtSign(Ann, 0)}
  /\ reqs = [s \in Slots |-> Idle]
  /\ hist = <<>>
  /\ variant = "fetch"
  /\ calls = <<>>

\* Authorization headers: none, one word, and two words whose second is a
\* token that is issued, forged or no JWT
GateHeaders ==
  {NoHeader, Header("Bearer", NoTok), Header("Bearer", Garbage)}
    \cup {Header("Bearer", t) : t \in issued}
    \cup {Header("Bearer", Forged(t)) : t \in issued}
    \cup {Header("Basic", t) : t \in issued}

\* the gate runs in the step the request arrives in: one request at a time
NextGate ==
  \/ \E s \in {1}, h \in GateHeaders : Len(hist) < MaxGateReqs /\ StartProfile(s, h)
  \/ \E s \in {1} : ProfileFind(s)
  \/ \E s \in {1}, h \in GateHeaders, b \in GateAddBodies :
        Len(hist) < MaxGateReqs /\ StartAdd(s, h, b)
  \/ \E s \in {1} : AddFindFirst(s)
  \/ \E s \in {1} : AddCreate(s)
  \/ \E s \in {1}, h \in GateHeaders : Len(hist) < MaxGateReqs /\ StartList(s, h)
  \/ \E s \in {1} : ListFindMany(s)
  \/ \E s \in {1}, h \in GateHeaders, b \in GateDeleteBodies :
        Len(hist) < MaxGateReqs /\ StartDelete(s, h, b)
  \/ \E s \in {1} : DeleteMany(s)
  \/ Tick(expiresIn * 1000)

GateSpec == InitGate /\ [][NextGate]_vars

(* ------------------- the identity service, concurrent ----------------- *)
InitAuth ==
  /\ users = {}
  /\ nextUid = 1
  /\ bookmarks = {}
  /\ nextBid = 1
  /\ now = 0
  /\ ticks = 0
  /\ issued = {}
  /\ reqs = [s \in Slots |-> Idle]
  /\ hist = <<>>
  /\ variant = "fetch"
  /\ calls = <<>>

Cred(name, email, password) == [name |-> name, email |-> email, password |-> password]

RegisterBodies ==
  {Cred("ann", e, "pw1") : e \in Emails} \cup {Cred("ann", "a@x", "pw2"), Cred("", "a@x", "pw1")}

LoginBodies ==
  {Cred("", e, p) : e \in Emails, p \in Passwords} \cup {Cred("", "a@x", "")}

NextAuth ==
  \/ \E s \in Slots, b \in RegisterBodies : StartRegister(s, b)
  \/ \E s \in Slots : RegisterFind(s)
  \/ \E s \in Slots : RegisterHash(s)
  \/ \E s \in Slots : RegisterCreate(s)
  \/ \E s \in Slots, b \in LoginBodies : StartLogin(s, b)
  \/ \E s \in Slots : LoginFind(s)
  \/ \E s \in Slots : LoginCompare(s)

AuthSpec == InitAuth /\ [][NextAuth]_vars

(* ------------------------ the token's lifetime ------------------------ *)
\* two users are registered, nobody is logged in
InitToken ==
  /\ users = {Ann, Bob}
  /\ nextUid = 3
  /\ bookmarks = {}
  /\ nextBid = 1
  /\ now = 0
  /\ ticks = 0
  /\ issued = {}
  /\ reqs = [s \in Slots |-> Idle]
  /\ hist = <<>>
  /\ variant = "fetch"
  /\ calls = <<>>

NextToken ==
  \/ \E s \in Slots, b \in {Cred("", "a@x", "pw1"), Cred("", "b@x", "pw1")} : StartLogin(s, b)
  \/ \E s \in Slots : LoginFind(s)
  \/ \E s \in Slots : LoginCompare(s)
  \/ \E s \in Slots, h \in BearerHeaders : StartProfile(s, h)
  \/ \E s \in Slots : ProfileFind(s)
  \/ \E d \in TickSteps : Tick(d)

TokenSpec == InitToken /\ [][NextToken]_vars

(* -------------------------- the news adapter -------------------------- *)
\* either entry point is deployed
InitNews ==
  /\ users = {}
  /\ nextUid = 1
  /\ bookmarks = {}
  /\ nextBid = 1
  /\ now = 0
  /\ ticks = 0
  /\ issued = {}
  /\ reqs = [s \in Slots |-> Idle]
  /\ hist = <<>>
  /\ variant \in {"fetch", "axios"}
  /\ calls = <<>>

Modes == {Absent, Given("top-headlines"), Given("search"), Given("latest")}

Keywords == {Absent, Given("k")}

\* requests to the news adapter share no state: one request at a time
NextNews ==
  \/ \E s \in {1}, m \in Modes, k \in Keywords :
        Len(hist) < MaxNewsReqs /\ StartNews(s, m, k)
  \/ \E s \in {1}, o \in Outcomes : NewsFetched(s, o)
  \/ \E s \in {1}, o \in Outcomes : NewsAttempted(s, o)
  \/ \E s \in {1} : NewsRetry(s)

NewsSpec == InitNews /\ [][NextNews]_vars

\* part_000: an attempt ends, by timeout: 15000 at the latest, and the delay
\* before a retry passes
FairNewsSpec ==
  /\ NewsSpec
  /\ WF_vars(\E s \in {1}, o \in Outcomes : NewsAttempted(s, o))
  /\ WF_vars(\E s \in {1} : NewsRetry(s))

Done == 1..Len(hist)

\* hist[i] and hist[j] are the same caller's requests about the same url
SameKey(i, j) ==
  hist[i].user.id = hist[j].user.id /\ hist[i].url = hist[j].url

(* C1: in every reachable state, under interleaved Add and Delete requests, *)
(* no two Bookmark rows have the same (userId, url).                        *)
C1_UniqueBookmarks ==
  \A b1, b2 \in bookmarks :
    (b1.userId = b2.userId /\ b1.url = b2.url) => b1 = b2

(* C2: the same user adds the same url twice, the second request after the  *)
(* first has answered (the first overlaps no other request), the url not    *)
(* bookmarked before the first and no Delete of it in between: the first    *)
(* answers 201, the second 409, and the store then holds exactly one row    *)
(* for (userId, url).                                                       *)
C2_AddTwice ==
  \A i, j \in Done :
    ( /\ i < j
      /\ hist[i].kind = "add" /\ hist[j].kind = "add"
      /\ hist[i].user # NoClaim /\ SameKey(i, j)
      /\ hist[i].title # "" /\ hist[j].title # ""
      /\ hist[i].alone /\ ~hist[i].had
      /\ \A k \in Done : (i < k /\ k < j /\ hist[k].kind = "delete") => ~SameKey(i, k) )
    => /\ hist[i].status = 201
       /\ hist[j].status = 409
       /\ hist[j].count = 1

C2_Witness ==
  \E i, j \in Done :
    /\ i < j /\ hist[i].kind = "add" /\ hist[j].kind = "add" /\ SameKey(i, j)
    /\ hist[i].alone /\ hist[j].alone
    /\ hist[i].status = 201 /\ hist[j].status = 409

\* the rows a step adds to or removes from the Bookmark table
Touched == (bookmarks' \ bookmarks) \cup (bookmarks \ bookmarks')

(* C6: a step of an Add, List or Delete request authenticated as A creates  *)
(* and deletes only rows whose userId is A's id, and a List answers only    *)
(* with such rows, whatever userId the body names.                          *)
C6_OwnRowsOnly ==
  [][\A s \in Slots :
       (reqs[s].kind \in {"add", "list", "delete"} /\ reqs'[s] # reqs[s])
       => /\ \A b \in Touched : b.userId = reqs[s].user.id
          /\ Len(hist') > Len(hist) =>
               \A n \in 1..Len(hist'[Len(hist')].rows) :
                 hist'[Len(hist')].rows[n].userId = reqs[s].user.id]_vars

C6_Witness ==
  \E i \in Done :
    /\ hist[i].kind = "delete" /\ hist[i].status = 200
    /\ hist[i].bodyUid \notin {0, hist[i].user.id}
    /\ \E b \in bookmarks : b.userId = hist[i].bodyUid /\ b.url = hist[i].url

(* C7: a Delete for a url the caller holds no Bookmark for answers 404 and  *)
(* leaves Users and Bookmarks unchanged; a Delete that answers 200 removes  *)
(* the rows matching (caller id, url) and nothing else.                     *)
C7_DeleteFrame ==
  [][\A s \in Slots :
       (reqs[s].pc = "deleteMany" /\ reqs'[s].kind = "idle")
       => LET e == hist'[Len(hist')]
              own == Matching(bookmarks, reqs[s].user.id, reqs[s].url)
          IN /\ users' = users
             /\ e.status \in {200, 404}
             /\ e.status = 404 <=> own = {}
             /\ e.status = 404 => bookmarks' = bookmarks
             /\ e.status = 200 => bookmarks' = bookmarks \ own]_vars

C7_Witness ==
  \E i \in Done :
    /\ hist[i].kind = "delete" /\ hist[i].status = 404
    /\ \E b \in bookmarks : b.url = hist[i].url /\ b.userId # hist[i].user.id

Protected == {"profile", "add", "list", "delete"}

\* the handler ran: authenticateToken called next() and set req.user
HandlerRan(e) == e.user # NoClaim

(* C5: on every protected route, no Authorization header is answered 401, a *)
(* header with a malformed, invalid or expired token is answered 403, in    *)
(* both cases without the handler running, and the handler runs only when   *)
(* the header is 'Bearer <token>' and the token verifies.                   *)
C5_GateByHeader ==
  \A i \in Done :
    hist[i].kind \in Protected =>
      /\ ~hist[i].hdr.present => (hist[i].status = 401 /\ ~HandlerRan(hist[i]))
      /\ (hist[i].hdr.tok # NoTok /\ ~jwtVerify(hist[i].hdr.tok, hist[i].at))
           => (hist[i].status = 403 /\ ~HandlerRan(hist[i]))
      /\ HandlerRan(hist[i])
           => (hist[i].hdr.scheme = "Bearer" /\ jwtVerify(hist[i].hdr.tok, hist[i].at))

\* a Register request whose three fields are present
ValidRegister(e) ==
  e.kind = "register" /\ e.name # "" /\ e.email # "" /\ e.password # ""

(* C3: no two Users share an email in any reachable state; and when a       *)
(* Register of an email not yet registered, overlapping no other request,   *)
(* is followed by a Register of the same email (all fields present in       *)
(* both), the first answers 201 and creates one User, the second answers    *)
(* 400 and creates none.                                                    *)
C3_RegisterTwice ==
  /\ \A u1, u2 \in users : u1.email = u2.email => u1 = u2
  /\ \A i, j \in Done :
       ( /\ i < j /\ ValidRegister(hist[i]) /\ ValidRegister(hist[j])
         /\ hist[i].email = hist[j].email
         /\ hist[i].alone /\ ~hist[i].had )
       => /\ hist[i].status = 201 /\ hist[i].count = 1
          /\ hist[j].status = 400 /\ hist[j].count = 1
          /\ hist[j].user = NoClaim

C3_Witness ==
  \E i, j \in Done :
    /\ i < j /\ ValidRegister(hist[i]) /\ ValidRegister(hist[j])
    /\ hist[i].email = hist[j].email
    /\ hist[i].status = 201 /\ hist[j].status = 400

\* what the caller of Login sees
LoginResponse(e) == <<e.status, e.msg, e.token>>

\* a Login with both fields present
ValidLogin(e) == e.kind = "login" /\ e.email # "" /\ e.password # ""

\* e is a Login with a registered email and a wrong password, in store us
WrongPassword(e, us) ==
  /\ ValidLogin(e)
  /\ \E u \in FindUserByEmail(us, e.email) : ~bcryptCompare(e.password, u.password)
  /\ e.had

\* e is a Login with an email that store us does not hold
Unregistered(e, us) == ValidLogin(e) /\ FindUserByEmail(us, e.email) = {}

(* C4: a Login with a registered email and a wrong password and a Login     *)
(* with an unregistered email get the same status, 400, and the same body;  *)
(* and no step of a Login changes the store.                                *)
C4_LoginIndistinguishable ==
  [][/\ (\E s \in Slots : reqs[s].kind = "login" /\ reqs'[s] # reqs[s])
          => (users' = users /\ bookmarks' = bookmarks)
     /\ \A i, j \in 1..Len(hist') :
          (WrongPassword(hist'[i], users') /\ Unregistered(hist'[j], users'))
          => /\ hist'[i].status = 400
             /\ LoginResponse(hist'[i]) = LoginResponse(hist'[j])]_vars

C4_Witness ==
  \E i, j \in Done :
    /\ WrongPassword(hist[i], users) /\ Unregistered(hist[j], users)
    /\ hist[i].status = 400 /\ hist[j].status = 400

\* the Logins that issued the token of hist[m]'s header
IssuedBy(m) ==
  {k \in Done : /\ hist[k].kind = "login" /\ hist[k].status = 200
                /\ hist[k].token = hist[m].hdr.tok
                /\ hist[k].doneAt <= hist[m].at}

(* C8 as claimed: a token issued by a Login at time T is accepted on every  *)
(* protected request made up to T+1h and answered 403 strictly after.       *)
C8_AcceptedUpToTheHour ==
  \A m \in Done : \A k \in IssuedBy(m) :
    hist[m].kind \in Protected =>
      /\ hist[m].at <= hist[k].doneAt + expiresIn * 1000 => hist[m].status # 403
      /\ hist[m].at > hist[k].doneAt + expiresIn * 1000 => hist[m].status = 403

(* C8: a token issued by a Login at time T is accepted on every protected   *)
(* request made before the clock (in whole seconds) reaches T's second plus *)
(* 3600, and answered 403 on every request from then on; the gate reads     *)
(* only the token and the clock.                                            *)
C8_AcceptedBeforeTheHour ==
  \A m \in Done : \A k \in IssuedBy(m) :
    hist[m].kind \in Protected =>
      /\ hist[m].status \in {200, 403}
      /\ hist[m].status = 403
           <=> ClockTimestamp(hist[m].at) >= ClockTimestamp(hist[k].doneAt) + expiresIn

C8_Witness ==
  \E m \in Done : \E k \in IssuedBy(m) :
    /\ hist[m].kind = "profile" /\ hist[m].status = 403
    /\ hist[m].at = hist[k].doneAt + expiresIn * 1000

\* the news requests, answered or in flight
NewsReqs ==
  {hist[i] : i \in {n \in Done : hist[n].kind = "news"}}
    \cup {reqs[s] : s \in {t \in Slots : reqs[t].kind = "news"}}

\* the outbound calls request r made
CallsOf(r) == {n \in 1..Len(calls) : calls[n].rid = r.rid}

(* C9: a /api/news request in search mode with no keyword answers 400 and   *)
(* makes no outbound call; every other request calls one endpoint, chosen   *)
(* by mode: top-headlines for 'top-headlines', search for 'search'.         *)
C9_NewsEndpoint ==
  \A r \in NewsReqs :
    /\ (r.mode = "search" /\ r.keyword = "")
         => (r.status = 400 /\ r.pc = "done" /\ CallsOf(r) = {})
    /\ r.status = 400 => CallsOf(r) = {}
    /\ (r.mode = "top-headlines" \/ (r.mode = "search" /\ r.keyword # ""))
         => (CallsOf(r) # {} /\ r.status # 400)
    /\ \A n, m \in CallsOf(r) : calls[n].endpoint = calls[m].endpoint
    /\ r.mode = "top-headlines" => \A n \in CallsOf(r) : calls[n].endpoint = TopHeadlines
    /\ r.mode = "search" => \A n \in CallsOf(r) : calls[n].endpoint = Search

C9_Witness ==
  \E r \in NewsReqs :
    r.mode = "search" /\ r.keyword = "" /\ r.status = 400 /\ calls = <<>>

Resends(s) == reqs[s].kind = "news" /\ reqs'[s].sends = reqs[s].sends + 1 /\ reqs[s].sends >= 1

C10_Safe ==
  [][variant = "axios" =>
       /\ \A r \in NewsReqs : Cardinality(CallsOf(r)) = r.sends /\ r.sends <= retries + 1
       /\ \A s \in Slots : Resends(s) => reqs[s].last \in {"503", "ECONNRESET", "ETIMEDOUT"}
       /\ \A i, j \in Done : (hist[i].kind = "news" /\ hist[i].rid = hist[j].rid) => i = j
       /\ \A i \in Done :
            (hist[i].kind = "news" /\ hist[i].sends > 0)
            => /\ hist[i].status = 200 <=> hist[i].last = "200"
               /\ hist[i].status # 200 => hist[i].status = 500
               /\ hist[i].status = 500 =>
                    (hist[i].sends = retries + 1 \/ hist[i].last \in {"404", "ECONNABORTED"})]_vars

====
